---- MODULE Spec2Model ----
(***************************************************************************)
(* scripts/aws/apply_oidc_trust_policy.py: build the GitHub Actions OIDC   *)
(* trust policy, apply it to an IAM role with update_assume_role_policy,   *)
(* read it back with get_role.                                             *)
(*                                                                         *)
(* Two operators run main() against the same role.  The four locals that   *)
(* main() sets at lines 38-41 are the configuration of an invocation; the  *)
(* shipped values are the first element of AccountIds and of Repos, the    *)
(* other elements are what create_trust_policy(account_id, github_repo)    *)
(* is given when the configuration is edited.  The IAM service is the one  *)
(* piece of durable state: the trust policy of the role, as the JSON text  *)
(* that the last successful update_assume_role_policy sent.                *)
(***************************************************************************)
EXTENDS Integers, Sequences, FiniteSets, TLC

\* The concurrent invocations of main().
Procs == {"op1", "op2"}

\* The fake client answers ServiceUnavailable up to this many times in a row.
MaxUnavailable == 2

\* main() lines 38-41.
role_name == "github-actions-role"
region == "us-east-1"
AccountIds == {"422017356244", "123456789012", ""}
Repos == {"cloudtolocalllm/cloudtolocalllm", "acme/widget", "acme"}
\* The configurations run: the shipped one, one more of the owner/name shape,
\* a slug without a slash, an empty account.
Configs ==
    {<<"422017356244", "cloudtolocalllm/cloudtolocalllm">>,
     <<"123456789012", "acme/widget">>,
     <<"123456789012", "acme">>,
     <<"", "acme/widget">>}

\* What input() / getpass() can hand back (lines 50-51).
Keys == {"", "AKIA"}

AudKey == "token.actions.githubusercontent.com:aud"
SubKey == "token.actions.githubusercontent.com:sub"

NoDoc == [Version |-> "none", Statement |-> <<>>]

\* The trust policy the role carries before any invocation: no statement.
PriorPolicy == [Version |-> "2012-10-17", Statement |-> <<>>]

\* The sub pattern without its trailing wildcard.
create_trust_policy_no_wildcard(account_id, github_repo) ==
    [Version |-> "2012-10-17",
     Statement |-> <<
        [Effect |-> "Allow",
         Principal |-> [Federated |->
            "arn:aws:iam::" \o account_id
                \o ":oidc-provider/token.actions.githubusercontent.com"],
         Action |-> "sts:AssumeRoleWithWebIdentity",
         Condition |->
            [StringEquals |-> (AudKey :> "sts.amazonaws.com"),
             StringLike |-> (SubKey :> ("repo:" \o github_repo))]] >>]

create_trust_policy(account_id, github_repo) ==
    [Version |-> "2012-10-17",
     Statement |-> <<
        [Effect |-> "Allow",
         Principal |-> [Federated |->
            "arn:aws:iam::" \o account_id
                \o ":oidc-provider/token.actions.githubusercontent.com"],
         Action |-> "sts:AssumeRoleWithWebIdentity",
         Condition |->
            [StringEquals |-> (AudKey :> "sts.amazonaws.com"),
             StringLike |-> (SubKey :> ("repo:" \o github_repo \o ":*"))]] >>]

\* json.dumps of one statement: keys in insertion order, ", " and ": ".
dumps_statement(s) ==
    "{\"Effect\": \"" \o s.Effect
    \o "\", \"Principal\": {\"Federated\": \"" \o s.Principal.Federated
    \o "\"}, \"Action\": \"" \o s.Action
    \o "\", \"Condition\": {\"StringEquals\": {\"" \o AudKey \o "\": \""
    \o s.Condition.StringEquals[AudKey]
    \o "\"}, \"StringLike\": {\"" \o SubKey \o "\": \""
    \o s.Condition.StringLike[SubKey] \o "\"}}}"

RECURSIVE dumps_list(_)
dumps_list(ss) ==
    IF ss = <<>> THEN ""
    ELSE IF Len(ss) = 1 THEN dumps_statement(Head(ss))
    ELSE dumps_statement(Head(ss)) \o ", " \o dumps_list(Tail(ss))

\* json.dumps(trust_policy), line 89.
json_dumps(doc) ==
    "{\"Version\": \"" \o doc.Version
    \o "\", \"Statement\": [" \o dumps_list(doc.Statement) \o "]}"

\* The documents a role of this model can carry.
Statements ==
    {create_trust_policy(a, r).Statement[1] : a \in AccountIds, r \in Repos}
Documents ==
    {[Version |-> "2012-10-17", Statement |-> ss] :
        ss \in {<<>>} \cup {<<s>> : s \in Statements}
                      \cup {<<s, t>> : s \in Statements, t \in Statements}}

\* response['Role']['AssumeRolePolicyDocument'], line 105: botocore hands the
\* stored JSON text back parsed.
json_loads(text) == CHOOSE d \in Documents : json_dumps(d) = text

\* The run is limited to one call of update_assume_role_policy: lines 86-97
\* hold no loop.
MaxAttempts == 1

\* A merge instead of a replacement: the statements are appended.
UpdateAssumeRolePolicy_merge(stored, PolicyDocument) ==
    json_dumps([Version |-> "2012-10-17",
                Statement |-> json_loads(stored).Statement
                              \o json_loads(PolicyDocument).Statement])

\* iam:UpdateAssumeRolePolicy as called at lines 87-90: the role's document
\* becomes the document sent.
UpdateAssumeRolePolicy(stored, PolicyDocument) == PolicyDocument

VARIABLES
    role,            \* the trust policy of role_name held by IAM (JSON text)
    last_writer,     \* whose update_assume_role_policy completed last
    pc,              \* position of each invocation in main()
    account_id,      \* main() locals
    github_repo,
    access_key_id,
    secret_access_key,
    trust_policy,
    current_policy,
    unavailable,     \* ServiceUnavailable answers the client still has to give
    unavailable0,    \* the same, as planned at the start
    apply_calls,     \* calls of update_assume_role_policy made
    apply_effects,   \* of these, the ones that changed the role
    fetch_calls,     \* calls of get_role made
    error,           \* the exception main() caught, or "none"
    result,          \* the outcome main() printed
    exit_code        \* -1 while running

vars == <<role, last_writer, pc, account_id, github_repo, access_key_id,
          secret_access_key, trust_policy, current_policy, unavailable,
          unavailable0, apply_calls, apply_effects, fetch_calls, error,
          result, exit_code>>

config == <<account_id, github_repo, unavailable0>>
creds == <<access_key_id, secret_access_key>>
store == <<role, last_writer>>
counters == <<apply_calls, apply_effects, fetch_calls>>

Running == -1

Init ==
    /\ role = json_dumps(PriorPolicy)
    /\ last_writer = "nobody"
    /\ pc = [p \in Procs |-> "credentials"]
    /\ \E c \in [Procs -> Configs] :
        /\ account_id = [p \in Procs |-> c[p][1]]
        /\ github_repo = [p \in Procs |-> c[p][2]]
    /\ access_key_id = [p \in Procs |-> ""]
    /\ secret_access_key = [p \in Procs |-> ""]
    /\ trust_policy = [p \in Procs |-> NoDoc]
    /\ current_policy = [p \in Procs |-> NoDoc]
    /\ unavailable0 \in [Procs -> 0..MaxUnavailable]
    /\ unavailable = unavailable0
    /\ apply_calls = [p \in Procs |-> 0]
    /\ apply_effects = [p \in Procs |-> 0]
    /\ fetch_calls = [p \in Procs |-> 0]
    /\ error = [p \in Procs |-> "none"]
    /\ result = [p \in Procs |-> "none"]
    /\ exit_code = [p \in Procs |-> Running]

\* sys.exit(code) after printing an outcome.
Exit(p, outcome, err, code) ==
    /\ pc' = [pc EXCEPT ![p] = "exit"]
    /\ result' = [result EXCEPT ![p] = outcome]
    /\ error' = [error EXCEPT ![p] = err]
    /\ exit_code' = [exit_code EXCEPT ![p] = code]

\* Lines 50-59: prompt for the credentials; an empty one ends the run.
ReadCredentials(p) ==
    /\ pc[p] = "credentials"
    /\ \E k \in Keys, s \in Keys :
        /\ access_key_id' = [access_key_id EXCEPT ![p] = k]
        /\ secret_access_key' = [secret_access_key EXCEPT ![p] = s]
        /\ IF k = "" \/ s = ""
           THEN Exit(p, "CredentialsEmpty", "none", 1)
           ELSE /\ pc' = [pc EXCEPT ![p] = "build"]
                /\ UNCHANGED <<result, error, exit_code>>
    /\ UNCHANGED <<store, config, trust_policy, current_policy, unavailable,
                   counters>>

\* Lines 61-66: build the document; nothing is validated.
Build(p) ==
    /\ pc[p] = "build"
    /\ trust_policy' = [trust_policy EXCEPT
                          ![p] = create_trust_policy(account_id[p], github_repo[p])]
    /\ pc' = [pc EXCEPT ![p] = "client"]
    /\ UNCHANGED <<store, config, creds, current_policy, unavailable, counters,
                   error, result, exit_code>>

\* Lines 69-78: boto3.client(...) returns a client or raises.
CreateClient(p) ==
    /\ pc[p] = "client"
    /\ \/ /\ pc' = [pc EXCEPT ![p] = "apply"]
          /\ UNCHANGED <<result, error, exit_code>>
       \/ Exit(p, "ClientFailed", "Exception", 1)
    /\ UNCHANGED <<store, config, creds, trust_policy, current_policy,
                   unavailable, counters>>

\* What update_assume_role_policy can raise as a ClientError.
ApplyErrors == {"AccessDenied", "NoSuchEntity", "ServiceUnavailable"}
\* What get_role can raise as a ClientError.
FetchErrors == {"NoSuchEntity", "ServiceUnavailable"}

\* The call of lines 87-90 is counted when it is made.
ApplyCalled(p) == apply_calls' = [apply_calls EXCEPT ![p] = @ + 1]

\* The request reached IAM and replaced the role's document.
ApplyTakesEffect(p) ==
    /\ role' = UpdateAssumeRolePolicy(role, json_dumps(trust_policy[p]))
    /\ last_writer' = p
    /\ apply_effects' = [apply_effects EXCEPT ![p] = @ + 1]

ApplyNoEffect == UNCHANGED <<role, last_writer, apply_effects>>

\* Lines 86-91: update_assume_role_policy returns.
ApplyOk(p) ==
    /\ pc[p] = "apply"
    /\ unavailable[p] = 0
    /\ ApplyCalled(p)
    /\ ApplyTakesEffect(p)
    /\ pc' = [pc EXCEPT ![p] = "verify"]
    /\ UNCHANGED <<config, creds, trust_policy, current_policy, unavailable,
                   fetch_calls, error, result, exit_code>>

\* The client answers ServiceUnavailable while it has some left to give,
\* then one of the other errors.
ApplyErrorKind(p, kind) ==
    /\ kind \in ApplyErrors
    /\ (unavailable[p] > 0) <=> (kind = "ServiceUnavailable")
    /\ unavailable' = [unavailable EXCEPT ![p] = IF @ > 0 THEN @ - 1 ELSE 0]

\* The handler falls through to the verification instead of leaving.
ApplyClientError_fallthrough(p) ==
    /\ pc[p] = "apply"
    /\ \E kind \in ApplyErrors :
        /\ ApplyErrorKind(p, kind)
        /\ error' = [error EXCEPT ![p] = kind]
        /\ result' = [result EXCEPT ![p] = "ApplyFailed"]
    /\ ApplyCalled(p)
    /\ ApplyNoEffect
    /\ pc' = [pc EXCEPT ![p] = "verify"]
    /\ UNCHANGED <<config, creds, trust_policy, current_policy, fetch_calls,
                   exit_code>>

\* The handler calls again, up to three calls, before it gives up.
ApplyClientError_retry(p) ==
    /\ pc[p] = "apply"
    /\ \E kind \in ApplyErrors :
        /\ ApplyErrorKind(p, kind)
        /\ IF apply_calls[p] + 1 < 3
           THEN UNCHANGED <<pc, result, error, exit_code>>
           ELSE Exit(p, "ApplyFailed", kind, 1)
    /\ ApplyCalled(p)
    /\ ApplyNoEffect
    /\ UNCHANGED <<config, creds, trust_policy, current_policy, fetch_calls>>

\* Only ServiceUnavailable is retried, up to three calls.
ApplyClientError_retry_unavailable(p) ==
    /\ pc[p] = "apply"
    /\ \E kind \in ApplyErrors :
        /\ ApplyErrorKind(p, kind)
        /\ IF kind = "ServiceUnavailable" /\ apply_calls[p] + 1 < 3
           THEN UNCHANGED <<pc, result, error, exit_code>>
           ELSE Exit(p, "ApplyFailed", kind, 1)
    /\ ApplyCalled(p)
    /\ ApplyNoEffect
    /\ UNCHANGED <<config, creds, trust_policy, current_policy, fetch_calls>>

\* Lines 92-94: update_assume_role_policy raises ClientError; IAM refused the
\* request, the role keeps its document; print and sys.exit(1).
ApplyClientError(p) ==
    /\ pc[p] = "apply"
    /\ \E kind \in ApplyErrors :
        /\ ApplyErrorKind(p, kind)
        /\ Exit(p, "ApplyFailed", kind, 1)
    /\ ApplyCalled(p)
    /\ ApplyNoEffect
    /\ UNCHANGED <<config, creds, trust_policy, current_policy, fetch_calls>>

\* Lines 95-97: any other Exception (no connection, a timeout on the answer):
\* the request may or may not have reached IAM; print and sys.exit(1).
ApplyException(p) ==
    /\ pc[p] = "apply"
    /\ ApplyCalled(p)
    /\ ApplyTakesEffect(p) \/ ApplyNoEffect
    /\ Exit(p, "ApplyFailed", "Exception", 1)
    /\ UNCHANGED <<config, creds, trust_policy, current_policy, unavailable,
                   fetch_calls>>

\* The interrupt is handled like any other exception of lines 95-97.
ApplyInterrupted_caught(p) ==
    /\ pc[p] = "apply"
    /\ ApplyCalled(p)
    /\ ApplyTakesEffect(p) \/ ApplyNoEffect
    /\ Exit(p, "ApplyFailed", "KeyboardInterrupt", 1)
    /\ UNCHANGED <<config, creds, trust_policy, current_policy, unavailable,
                   fetch_calls>>

\* Lines 86-97 under Ctrl-C: KeyboardInterrupt is no Exception, neither
\* handler catches it, the interpreter ends the process (status 130).
ApplyInterrupted(p) ==
    /\ pc[p] = "apply"
    /\ ApplyCalled(p)
    /\ ApplyTakesEffect(p) \/ ApplyNoEffect
    /\ Exit(p, "Cancelled", "KeyboardInterrupt", 130)
    /\ UNCHANGED <<config, creds, trust_policy, current_policy, unavailable,
                   fetch_calls>>

FetchCalled(p) == fetch_calls' = [fetch_calls EXCEPT ![p] = @ + 1]

\* Lines 103-110 and 116-122: get_role returns; the document is printed under
\* "Trust policy verified" whatever it holds; main() returns, status 0.
VerifyOk(p) ==
    /\ pc[p] = "verify"
    /\ FetchCalled(p)
    /\ current_policy' = [current_policy EXCEPT ![p] = json_loads(role)]
    /\ Exit(p, "Applied+Verified", error[p], 0)
    /\ UNCHANGED <<store, config, creds, trust_policy, unavailable,
                   apply_calls, apply_effects>>

\* The handler leaves with status 1.
VerifyClientError_exit1(p) ==
    /\ pc[p] = "verify"
    /\ FetchCalled(p)
    /\ \E kind \in FetchErrors : Exit(p, "Applied+VerifyFailed", kind, 1)
    /\ UNCHANGED <<store, config, creds, trust_policy, current_policy,
                   unavailable, apply_calls, apply_effects>>

\* The handler applies the document again.
VerifyClientError_reapply(p) ==
    /\ pc[p] = "verify"
    /\ FetchCalled(p)
    /\ \E kind \in FetchErrors : error' = [error EXCEPT ![p] = kind]
    /\ pc' = [pc EXCEPT ![p] = IF fetch_calls[p] < 2 THEN "apply" ELSE "exit"]
    /\ result' = [result EXCEPT ![p] = "Applied+VerifyFailed"]
    /\ exit_code' = [exit_code EXCEPT ![p] = IF fetch_calls[p] < 2 THEN Running ELSE 0]
    /\ UNCHANGED <<store, config, creds, trust_policy, current_policy,
                   unavailable, apply_calls, apply_effects>>

\* Lines 111-112 and 116-122: get_role raises ClientError; a warning is
\* printed, main() goes on to its end, status 0.
VerifyClientError(p) ==
    /\ pc[p] = "verify"
    /\ FetchCalled(p)
    /\ \E kind \in FetchErrors : Exit(p, "Applied+VerifyFailed", kind, 0)
    /\ UNCHANGED <<store, config, creds, trust_policy, current_policy,
                   unavailable, apply_calls, apply_effects>>

\* Lines 113-114 and 116-122: any other Exception, the same way.
VerifyException(p) ==
    /\ pc[p] = "verify"
    /\ FetchCalled(p)
    /\ Exit(p, "Applied+VerifyFailed", "Exception", 0)
    /\ UNCHANGED <<store, config, creds, trust_policy, current_policy,
                   unavailable, apply_calls, apply_effects>>

\* Lines 103-114 under Ctrl-C: not caught, the process ends (status 130).
VerifyInterrupted(p) ==
    /\ pc[p] = "verify"
    /\ FetchCalled(p)
    /\ Exit(p, "Cancelled", "KeyboardInterrupt", 130)
    /\ UNCHANGED <<store, config, creds, trust_policy, current_policy,
                   unavailable, apply_calls, apply_effects>>

Next ==
    \/ \E p \in Procs : ReadCredentials(p)
    \/ \E p \in Procs : Build(p)
    \/ \E p \in Procs : CreateClient(p)
    \/ \E p \in Procs : ApplyOk(p)
    \/ \E p \in Procs : ApplyClientError(p)
    \/ \E p \in Procs : ApplyException(p)
    \/ \E p \in Procs : ApplyInterrupted(p)
    \/ \E p \in Procs : VerifyOk(p)
    \/ \E p \in Procs : VerifyClientError(p)
    \/ \E p \in Procs : VerifyException(p)
    \/ \E p \in Procs : VerifyInterrupted(p)

Spec == Init /\ [][Next]_vars

TypeOK ==
    /\ last_writer \in Procs \cup {"nobody"}
    /\ \A p \in Procs :
        /\ pc[p] \in {"credentials", "build", "client", "apply", "verify", "exit"}
        /\ exit_code[p] \in {Running, 0, 1, 130}
        /\ (pc[p] = "exit") <=> (exit_code[p] # Running)

----------------------------------------------------------------------------
\* Vocabulary of the properties.

\* RoleIdentityParams as the specification wants them: nothing empty, the
\* slug of the owner/name shape.
OwnerNameSlugs == {"cloudtolocalllm/cloudtolocalllm", "acme/widget"}
ValidInput(p) ==
    /\ account_id[p] # ""
    /\ github_repo[p] \in OwnerNameSlugs
    /\ role_name # ""
    /\ region # ""

\* update_assume_role_policy returned without raising.
ApplySucceeded(p) == pc[p] = "verify" \/ fetch_calls[p] > 0

\* get_role returned a document.
Fetched(p) == current_policy[p] # NoDoc

\* The run of p met the client of the retry test: ServiceUnavailable
\* unavailable0[p] times, then success.
RetryTestRun(p) ==
    /\ pc[p] = "exit"
    /\ \/ ApplySucceeded(p)
       \/ result[p] = "ApplyFailed" /\ error[p] = "ServiceUnavailable"

----------------------------------------------------------------------------
\* C1: an invocation changes the role's trust policy at most once: it calls
\* update_assume_role_policy at most once, at most one call takes effect,
\* and once the verification has failed the run is over (no further Apply).
C1_MutatedAtMostOnce ==
    \A p \in Procs :
        /\ apply_calls[p] <= 1
        /\ apply_effects[p] <= apply_calls[p]
        /\ result[p] = "Applied+VerifyFailed" => pc[p] = "exit"
        /\ fetch_calls[p] > 0 /\ current_policy[p] # trust_policy[p]
            => pc[p] = "exit"

\* A run that applied, then failed to read back its own document.
C1_Witness ==
    \E p \in Procs :
        /\ pc[p] = "exit"
        /\ apply_effects[p] = 1
        /\ fetch_calls[p] = 1
        /\ current_policy[p] # trust_policy[p]
        /\ result[p] = "Applied+VerifyFailed"

\* C2: get_role is called only after update_assume_role_policy has returned,
\* and a run whose Apply failed ends without any call of get_role.
C2_ApplyBeforeVerify ==
    \A p \in Procs :
        /\ fetch_calls[p] > 0 => apply_calls[p] = 1 /\ apply_effects[p] = 1
        /\ pc[p] = "verify" => apply_calls[p] = 1 /\ apply_effects[p] = 1
        /\ result[p] = "ApplyFailed" => pc[p] = "exit" /\ fetch_calls[p] = 0

\* One run ended ApplyFailed on an IAM error, another one called get_role.
C2_Witness ==
    \E p, q \in Procs :
        /\ result[p] = "ApplyFailed" /\ error[p] \in ApplyErrors
        /\ fetch_calls[q] = 1

\* C3: after a successful Apply the run reports Applied+Verified only when the
\* fetched document equals the built one, and Applied+VerifyFailed whenever
\* the fetched document differs.
C3_VerifiedOnlyWhenEqual ==
    \A p \in Procs :
        pc[p] = "exit" /\ fetch_calls[p] > 0 =>
            /\ result[p] = "Applied+Verified"
                => current_policy[p] = trust_policy[p]
            /\ Fetched(p) /\ current_policy[p] # trust_policy[p]
                => result[p] = "Applied+VerifyFailed"

C5_FatalApplyError ==
    \A p \in Procs :
        error[p] \in {"AccessDenied", "NoSuchEntity"} /\ fetch_calls[p] = 0 =>
            /\ pc[p] = "exit"
            /\ result[p] = "ApplyFailed"
            /\ exit_code[p] = 1
            /\ apply_calls[p] = 1
            /\ apply_effects[p] = 0
            /\ last_writer # p

\* A run refused with AccessDenied while the role still has its prior policy.
C5_Witness ==
    \E p \in Procs :
        /\ error[p] = "AccessDenied"
        /\ result[p] = "ApplyFailed"
        /\ role = json_dumps(PriorPolicy)

C7_InvalidInputRejected ==
    \A p \in Procs :
        ~ValidInput(p) =>
            /\ pc[p] \notin {"client", "apply", "verify"}
            /\ apply_calls[p] = 0
            /\ fetch_calls[p] = 0
            /\ apply_effects[p] = 0

\* C8: with two invocations on the same role, the role carries exactly the
\* document of the invocation whose Apply completed last, one statement, and
\* what get_role returns is the whole document of one of the invocations.
C8_LastWriterWins ==
    /\ \A p \in Procs :
        last_writer = p =>
            /\ role = json_dumps(trust_policy[p])
            /\ Len(trust_policy[p].Statement) = 1
    /\ \A p \in Procs :
        Fetched(p) => \E q \in Procs : /\ apply_effects[q] = 1
                                       /\ current_policy[p] = trust_policy[q]

\* Both applied different documents, and one read back the other's.
C8_Witness ==
    \E p, q \in Procs :
        /\ p # q
        /\ apply_effects[p] = 1 /\ apply_effects[q] = 1
        /\ trust_policy[p] # trust_policy[q]
        /\ last_writer = q
        /\ role = json_dumps(trust_policy[q])
        /\ current_policy[p] = trust_policy[q]

C10_BuiltDocument ==
    \A p \in Procs :
        trust_policy[p] # NoDoc =>
            /\ trust_policy[p].Version = "2012-10-17"
            /\ Len(trust_policy[p].Statement) = 1
            /\ LET st == trust_policy[p].Statement[1] IN
                /\ st.Effect = "Allow"
                /\ st.Principal = [Federated |-> "arn:aws:iam::" \o account_id[p]
                        \o ":oidc-provider/token.actions.githubusercontent.com"]
                /\ st.Action = "sts:AssumeRoleWithWebIdentity"
                /\ DOMAIN st.Condition = {"StringEquals", "StringLike"}
                /\ st.Condition.StringEquals = (AudKey :> "sts.amazonaws.com")
                /\ st.Condition.StringLike =
                        (SubKey :> ("repo:" \o github_repo[p] \o ":*"))
                /\ account_id[p] = "123456789012" /\ github_repo[p] = "acme/widget"
                    => /\ st.Condition.StringLike[SubKey] = "repo:acme/widget:*"
                       /\ st.Principal.Federated =
                            "arn:aws:iam::123456789012:oidc-provider/token.actions.githubusercontent.com"
            /\ \A q \in Procs :
                /\ trust_policy[q] # NoDoc
                /\ account_id[q] = account_id[p]
                /\ github_repo[q] = github_repo[p]
                => trust_policy[q] = trust_policy[p]

\* Both invocations built the document of accountID 123456789012 and
\* repoSlug acme/widget.
C10_Witness ==
    \A p \in Procs :
        /\ account_id[p] = "123456789012"
        /\ github_repo[p] = "acme/widget"
        /\ trust_policy[p] # NoDoc
====
